---- MODULE Spec2Model ----
(***************************************************************************)
(* Affiliate back end: click attribution, category/commission resolution,  *)
(* the commission ledger and its administrative approval, withdrawals.     *)
(*                                                                         *)
(* Units.  Prices are integers in 1/100 of a currency unit, commission     *)
(* rates are integers in 1/10000 (0.02 is 200, a rule of p percent is      *)
(* 100*p), amounts and balances are price*rate, in 1/1000000 of a currency *)
(* unit.  All arithmetic is exact; IEEE rounding of the JavaScript numbers *)
(* is outside the model.  Strings are TLA+ strings read character by       *)
(* character with SubSeq.                                                  *)
(***************************************************************************)
EXTENDS Integers, Sequences, FiniteSets, TLC

NULL == "null"
NaN == -1

(***************************************************************************)
(* JavaScript string primitives                                            *)
(***************************************************************************)
UpperAlpha == "ABCDEFGHIJKLMNOPQRSTUVWXYZ"
LowerAlpha == "abcdefghijklmnopqrstuvwxyz"
Digits == "0123456789"

Ch(s, i) == SubSeq(s, i, i)

CharsOf(s) == { Ch(s, i) : i \in 1..Len(s) }

LowerMap == [c \in CharsOf(UpperAlpha) |->
               Ch(LowerAlpha, CHOOSE i \in 1..26 : Ch(UpperAlpha, i) = c)]

UpperMap == [c \in CharsOf(LowerAlpha) |->
               Ch(UpperAlpha, CHOOSE i \in 1..26 : Ch(LowerAlpha, i) = c)]

DigitMap == [c \in CharsOf(Digits) |->
               (CHOOSE i \in 1..10 : Ch(Digits, i) = c) - 1]

\* \w of a JavaScript regular expression: [A-Za-z0-9_]
WordChars == CharsOf(UpperAlpha) \cup CharsOf(LowerAlpha) \cup CharsOf(Digits) \cup {"_"}

\* the white space String.prototype.trim removes (the part that occurs here)
SpaceChars == {" "}

RECURSIVE toLowerCase(_)
toLowerCase(s) ==
  IF s = "" THEN ""
  ELSE (IF Ch(s, 1) \in DOMAIN LowerMap THEN LowerMap[Ch(s, 1)] ELSE Ch(s, 1))
         \o toLowerCase(SubSeq(s, 2, Len(s)))

RECURSIVE toUpperCase(_)
toUpperCase(s) ==
  IF s = "" THEN ""
  ELSE (IF Ch(s, 1) \in DOMAIN UpperMap THEN UpperMap[Ch(s, 1)] ELSE Ch(s, 1))
         \o toUpperCase(SubSeq(s, 2, Len(s)))

RECURSIVE trimStart(_)
trimStart(s) ==
  IF s # "" /\ Ch(s, 1) \in SpaceChars THEN trimStart(SubSeq(s, 2, Len(s))) ELSE s

RECURSIVE trimEnd(_)
trimEnd(s) ==
  IF s # "" /\ Ch(s, Len(s)) \in SpaceChars THEN trimEnd(SubSeq(s, 1, Len(s) - 1)) ELSE s

trim(s) == trimEnd(trimStart(s))

\* haystack.includes(needle)
includes(hay, needle) ==
  \E i \in 1..(Len(hay) - Len(needle) + 1) : SubSeq(hay, i, i + Len(needle) - 1) = needle

\* s.replace(/[^0-9.]/g, '')
RECURSIVE stripNonNumeric(_)
stripNonNumeric(s) ==
  IF s = "" THEN ""
  ELSE (IF Ch(s, 1) \in CharsOf(Digits) \cup {"."} THEN Ch(s, 1) ELSE "")
         \o stripNonNumeric(SubSeq(s, 2, Len(s)))

\* number of leading decimal digits of s
RECURSIVE digitRun(_)
digitRun(s) ==
  IF s # "" /\ Ch(s, 1) \in CharsOf(Digits) THEN 1 + digitRun(SubSeq(s, 2, Len(s))) ELSE 0

\* value of a string of decimal digits
RECURSIVE digitsValue(_)
digitsValue(s) ==
  IF s = "" THEN 0
  ELSE 10 * digitsValue(SubSeq(s, 1, Len(s) - 1)) + DigitMap[Ch(s, Len(s))]

\* parseFloat on a string of digits and dots, times 100: the longest prefix
\* digits[.digits] is read, NaN when it holds no digit.  Fraction digits past
\* the second are below the model's resolution.
parseFloat100(s) ==
  LET n    == digitRun(s)
      rest == SubSeq(s, n + 1, Len(s))
      m    == IF rest # "" /\ Ch(rest, 1) = "." THEN digitRun(SubSeq(rest, 2, Len(rest))) ELSE 0
      frac == SubSeq(rest, 2, 1 + (IF m > 2 THEN 2 ELSE m))
  IN  IF n = 0 /\ m = 0 THEN NaN
      ELSE 100 * digitsValue(SubSeq(s, 1, n))
             + (IF Len(frac) = 1 THEN 10 * digitsValue(frac) ELSE digitsValue(frac))

\* new RegExp('^' + escaped(pattern) + '$', 'i').test(text)
matchesExactIgnoreCase(pattern, text) == toLowerCase(pattern) = toLowerCase(text)

\* a \b position of text: before character i (i = Len+1 is the end)
isWordAt(text, i) == i >= 1 /\ i <= Len(text) /\ Ch(text, i) \in WordChars

wordBoundary(text, i) == isWordAt(text, i - 1) # isWordAt(text, i)

\* new RegExp('\\b' + escaped(term) + '\\b', 'i').test(text)
matchesWord(term, text) ==
  LET t == toLowerCase(term)
      x == toLowerCase(text)
  IN  \E i \in 1..(Len(x) - Len(t) + 1) :
        /\ SubSeq(x, i, i + Len(t) - 1) = t
        /\ wordBoundary(text, i)
        /\ wordBoundary(text, i + Len(t))

(***************************************************************************)
(* Search-index resolution (services/amazonApiService.js)                  *)
(***************************************************************************)
\* the static lookup table, in insertion order: <<key, search index>>
SMART_MAP ==
  << <<"Electronics", "Electronics">>,
     <<"Mobiles", "Electronics">>,
     <<"Tablets", "Electronics">>,
     <<"Laptops", "Computers">>,
     <<"Computers", "Computers">>,
     <<"Cameras", "Electronics">>,
     <<"Headphones", "Electronics">>,
     <<"Accessories", "Electronics">>,
     <<"Smart Home", "Electronics">>,
     <<"Wearables", "Electronics">>,
     <<"TV", "Electronics">>,
     <<"Television", "Electronics">>,
     <<"Televisions", "Electronics">>,
     <<"Smart Televisions", "Electronics">>,
     <<"LED TV", "Electronics">>,
     <<"Smart LED TV", "Electronics">>,
     <<"Fashion", "Fashion">>,
     <<"Men", "Apparel">>,
     <<"Women", "Apparel">>,
     <<"Kids", "Apparel">>,
     <<"Clothing", "Apparel">>,
     <<"Shoes", "Shoes">>,
     <<"Watches", "Watches">>,
     <<"Jewelry", "Jewelry">>,
     <<"Bags", "Apparel">>,
     <<"Home", "HomeAndKitchen">>,
     <<"Kitchen", "HomeAndKitchen">>,
     <<"Furniture", "Furniture">>,
     <<"Decor", "HomeAndKitchen">>,
     <<"Appliances", "Appliances">>,
     <<"Garden", "GardenAndOutdoor">>,
     <<"Tools", "ToolsAndHomeImprovement">>,
     <<"Beauty", "Beauty">>,
     <<"Health", "HealthPersonalCare">>,
     <<"Personal Care", "HealthPersonalCare">>,
     <<"Groceries", "GroceryAndGourmetFood">>,
     <<"Baby", "Baby">>,
     <<"Pet Supplies", "PetSupplies">>,
     <<"Books", "Books">>,
     <<"Toys", "ToysAndGames">>,
     <<"Games", "VideoGames">>,
     <<"Video Games", "VideoGames">>,
     <<"Music", "Music">>,
     <<"Movies", "MoviesAndTV">>,
     <<"Sports", "SportsAndOutdoors">>,
     <<"Fitness", "SportsAndOutdoors">>,
     <<"Automotive", "Automotive">>,
     <<"Car Accessories", "Automotive">>,
     <<"Gift Cards", "GiftCards">>,
     <<"Office", "OfficeProducts">>,
     <<"Industrial", "Industrial">> >>

\* least index of seq whose element satisfies P, 0 when there is none
FirstIdx(seq, P(_)) ==
  IF \E i \in DOMAIN seq : P(seq[i])
  THEN CHOOSE i \in DOMAIN seq : P(seq[i]) /\ \A j \in 1..(i - 1) : ~P(seq[j])
  ELSE 0

\* SMART_MAP is an object literal: a lookup by key also finds what it
\* inherits from Object.prototype
ObjectPrototypeKeys ==
  { "constructor", "toString", "toLocaleString", "valueOf", "hasOwnProperty",
    "isPrototypeOf", "propertyIsEnumerable", "__proto__", "__defineGetter__",
    "__defineSetter__", "__lookupGetter__", "__lookupSetter__" }

\* the inherited function or object, by name: a value that is not a string
Inherited(key) == "Object.prototype." \o key

\* SMART_MAP[category] is truthy without category being a key of the table
resolveInherited(category) == category \in ObjectPrototypeKeys

resolveSearchIndex(category) ==
  IF category = NULL \/ category = "" THEN "All"
  ELSE IF resolveInherited(category) THEN Inherited(category)
  ELSE
    LET exact == FirstIdx(SMART_MAP, LAMBDA e : e[1] = category)
        lowerCategory == toLowerCase(category)
        mapKey == FirstIdx(SMART_MAP, LAMBDA e : toLowerCase(e[1]) = lowerCategory)
        \* keys sorted by length, longest first (the sort is stable): the
        \* first contained key is a longest contained key, earliest on ties
        hit(e) == includes(lowerCategory, toLowerCase(e[1]))
        best == IF \E i \in DOMAIN SMART_MAP : hit(SMART_MAP[i])
                THEN CHOOSE i \in DOMAIN SMART_MAP :
                       /\ hit(SMART_MAP[i])
                       /\ \A j \in DOMAIN SMART_MAP : hit(SMART_MAP[j]) =>
                            \/ Len(SMART_MAP[j][1]) < Len(SMART_MAP[i][1])
                            \/ Len(SMART_MAP[j][1]) = Len(SMART_MAP[i][1]) /\ i <= j
                ELSE 0
    IN  IF exact # 0 THEN SMART_MAP[exact][2]
        ELSE IF mapKey # 0 THEN SMART_MAP[mapKey][2]
        ELSE IF best # 0 THEN SMART_MAP[best][2]
        ELSE "All"

(***************************************************************************)
(* The stores                                                              *)
(***************************************************************************)
\* User documents (models/User): role, referral code and stored referrer do
\* not change in the operations modelled; balance and totalEarnings do.
UserIds == {"a1", "a2", "u1", "u2"}

Users ==
  [u \in UserIds |->
     CASE u = "a1" -> [role |-> "agent", referralCode |-> "AGT1", referredBy |-> NULL]
       [] u = "a2" -> [role |-> "admin", referralCode |-> "ADM2", referredBy |-> NULL]
       [] u = "u1" -> [role |-> "user",  referralCode |-> NULL,   referredBy |-> "a1"]
       [] u = "u2" -> [role |-> "user",  referralCode |-> NULL,   referredBy |-> NULL]]

\* a Category document (models/Category), percentage a whole percent 0..100
Rule(name, index, pct, queries, status) ==
  [name |-> name, amazonSearchIndex |-> index, percentage |-> pct,
   searchQueries |-> queries, status |-> status]

\* the default commission fraction 0.02
DefaultRate == 200

\* percentage / 100 as a fraction in 1/10000
Fraction(pct) == pct * 100

VARIABLES
  service,        \* the AmazonAPIService instance: its credentials
  http,           \* the requests posted to the remote API, with what came of each
  signatures,     \* the calls of generateSignature made, with what each gave
  categories,     \* Category collection, in natural (insertion) order
  clicks,         \* ProductClick collection; the _id is the position
  transactions,   \* Transaction collection; the _id is the position
  withdrawals,    \* Withdrawal collection; the _id is the position
  balance,        \* User.balance
  totalEarnings,  \* User.totalEarnings
  procs,          \* the administrative and withdrawal requests in flight
  req,            \* the request last received
  res             \* the response last sent

vars == <<service, http, signatures, categories, clicks, transactions, withdrawals, balance, totalEarnings,
         procs, req, res>>

(***************************************************************************)
(* trackProductClick (controllers/analyticsController)                     *)
(***************************************************************************)
\* price sanitisation: a string loses every character but digits and dots
\* and is parsed (NaN becomes 0), a number is kept, anything else is 0
sanitizePrice(price) ==
  IF price.t = "string"
  THEN LET p == parseFloat100(stripNonNumeric(price.v)) IN IF p = NaN THEN 0 ELSE p
  ELSE IF price.t = "number" THEN price.v
  ELSE 0

\* User.findOne({ referralCode })
findUserByReferralCode(code) ==
  IF \E u \in UserIds : Users[u].referralCode = code
  THEN CHOOSE u \in UserIds : Users[u].referralCode = code
  ELSE NULL

\* the agent the click is attributed to
attributeAgent(b) ==
  LET a0 == b.agentId
      a1 == IF b.user # NULL /\ Users[b.user].role \in {"agent", "admin"} THEN b.user ELSE a0
      a2 == IF a1 = NULL /\ b.referralCode # NULL /\ b.referralCode # ""
            THEN findUserByReferralCode(toUpperCase(trim(b.referralCode)))
            ELSE a1
      a3 == IF a2 = NULL /\ b.user # NULL THEN Users[b.user].referredBy ELSE a2
  IN  a3

\* the term table of the product-name sniffing, in insertion order
TRACK_SMART_MAP ==
  << <<"tv", "Electronics">>,
     <<"television", "Electronics">>,
     <<"televisions", "Electronics">>,
     <<"smart televisions", "Electronics">>,
     <<"led tv", "Electronics">>,
     <<"smart led tv", "Electronics">>,
     <<"led", "Electronics">>,
     <<"lcd", "Electronics">>,
     <<"monitor", "Electronics">>,
     <<"phone", "Electronics">>,
     <<"mobile", "Electronics">>,
     <<"tablet", "Electronics">>,
     <<"camera", "Electronics">>,
     <<"headphone", "Electronics">>,
     <<"earphone", "Electronics">>,
     <<"speaker", "Electronics">>,
     <<"laptop", "Computers">>,
     <<"computer", "Computers">>,
     <<"macbook", "Computers">>,
     <<"keyboard", "Computers">>,
     <<"mouse", "Computers">>,
     <<"watch", "Watches">>,
     <<"clock", "Watches">>,
     <<"timepiece", "Watches">>,
     <<"fridge", "Appliances">>,
     <<"refrigerator", "Appliances">>,
     <<"washing machine", "Appliances">>,
     <<"ac", "Appliances">>,
     <<"air conditioner", "Appliances">>,
     <<"microwave", "Appliances">>,
     <<"kitchen", "HomeAndKitchen">>,
     <<"home", "HomeAndKitchen">>,
     <<"furniture", "Furniture">>,
     <<"soap", "Beauty">>,
     <<"shampoo", "Beauty">>,
     <<"cream", "Beauty">>,
     <<"makeup", "Beauty">>,
     <<"perfume", "Beauty">>,
     <<"hair", "Beauty">>,
     <<"shirt", "Fashion">>,
     <<"pant", "Fashion">>,
     <<"jeans", "Fashion">>,
     <<"shoe", "Shoes">>,
     <<"sandal", "Shoes">>,
     <<"sneaker", "Shoes">>,
     <<"bag", "Luggage">>,
     <<"luggage", "Luggage">>,
     <<"wallet", "Luggage">>,
     <<"fresh", "GroceryAndGourmetFood">>,
     <<"vegetable", "GroceryAndGourmetFood">>,
     <<"fruit", "GroceryAndGourmetFood">>,
     <<"food", "GroceryAndGourmetFood">>,
     <<"snack", "GroceryAndGourmetFood">>,
     <<"chocolate", "GroceryAndGourmetFood">>,
     <<"oil", "GroceryAndGourmetFood">>,
     <<"rice", "GroceryAndGourmetFood">>,
     <<"tea", "GroceryAndGourmetFood">>,
     <<"coffee", "GroceryAndGourmetFood">> >>

\* a value JavaScript takes for false: null, undefined or the empty string
falsy(s) == s = NULL \/ s = ""

\* Category.find({ status: 'active' })
activeCategories(cats) == SelectSeq(cats, LAMBDA c : c.status = "active")

isPlaceholder(category) == category = "Uncategorized" \/ category = "Unknown"

\* variant: the rule is looked up by search index alone
findSmartMatch_indexOnly(active, targetCatPartial) ==
  FirstIdx(active, LAMBDA c : c.amazonSearchIndex = targetCatPartial)

\* categories.find(c => c.name.toLowerCase().includes(target.toLowerCase())
\*                       || c.amazonSearchIndex === target): position or 0
findSmartMatch(active, targetCatPartial) ==
  FirstIdx(active, LAMBDA c :
    \/ includes(toLowerCase(c.name), toLowerCase(targetCatPartial))
    \/ c.amazonSearchIndex = targetCatPartial)

\* a resolution in progress: finalCategory and commissionPercentage
Resolution(category, rate) == [category |-> category, rate |-> rate]

\* Category.findOne({ $or: [{ name }, { searchQueries }] }) with the anchored,
\* case-insensitive pattern of the category: position or 0
findByNameOrQuery(cats, finalCategory) ==
  FirstIdx(cats, LAMBDA c :
    \/ matchesExactIgnoreCase(finalCategory, c.name)
    \/ \E q \in DOMAIN c.searchQueries :
         matchesExactIgnoreCase(finalCategory, c.searchQueries[q]))

\* Category.findOne({ amazonSearchIndex: resolvedIndex }) unless it is 'All'
findBySearchIndex(cats, resolvedIndex) ==
  IF resolvedIndex = "All" THEN 0
  ELSE FirstIdx(cats, LAMBDA c : c.amazonSearchIndex = resolvedIndex)

\* the second lookup runs when the first found nothing
orElse(found, other) == IF found # 0 THEN found ELSE other

\* steps 1 and 2: the rule an explicit category designates: position or 0
findMatchedCategory(cats, finalCategory) ==
  IF isPlaceholder(finalCategory) THEN 0
  ELSE orElse(findByNameOrQuery(cats, finalCategory),
              findBySearchIndex(cats, resolveSearchIndex(finalCategory)))

\* a found rule gives its name, and its percentage / 100 when that is > 0
adopt(rules, found, r) ==
  IF found = 0 THEN r
  ELSE Resolution(rules[found].name,
                  IF rules[found].percentage > 0 THEN Fraction(rules[found].percentage)
                  ELSE r.rate)

\* the first term of the table that occurs in the product name as a whole
\* word and has a rule: position or 0
sniffTerm(active, productName) ==
  FirstIdx(TRACK_SMART_MAP, LAMBDA e :
    matchesWord(e[1], productName) /\ findSmartMatch(active, e[2]) # 0)

adoptTerm(active, term, r) ==
  IF term = 0 THEN r
  ELSE adopt(active, findSmartMatch(active, TRACK_SMART_MAP[term][2]), r)

\* a keyword of rule c, of 3 characters or more, occurs in the product name
keywordHit(c, productName) ==
  \/ Len(c.name) >= 3 /\ matchesWord(c.name, productName)
  \/ \E q \in DOMAIN c.searchQueries :
       /\ Len(c.searchQueries[q]) >= 3
       /\ matchesWord(c.searchQueries[q], productName)

\* the keyword sweep, run while the category is still a placeholder
keywordSweep(active, productName, r) ==
  IF isPlaceholder(r.category)
  THEN adopt(active, FirstIdx(active, LAMBDA c : keywordHit(c, productName)), r)
  ELSE r

\* step 4: the term table first, then the keyword sweep
autoDetect(active, productName, r) ==
  keywordSweep(active, productName, adoptTerm(active, sniffTerm(active, productName), r))

\* step 4 runs when no rule was matched or the rate is still the default
fallback(cats, productName, matched, r) ==
  IF matched = 0 \/ r.rate = DefaultRate
  THEN autoDetect(activeCategories(cats), productName, r)
  ELSE r

resolveFrom(cats, productName, matched, finalCategory) ==
  fallback(cats, productName, matched,
           adopt(cats, matched, Resolution(finalCategory, DefaultRate)))

resolveExplicit(cats, productName, finalCategory) ==
  resolveFrom(cats, productName, findMatchedCategory(cats, finalCategory), finalCategory)

\* a resolution that starts from Uncategorized whatever the request supplied
resolveCommission_dropCategory(cats, category, productName) ==
  resolveExplicit(cats, productName, "Uncategorized")

\* category and commission fraction of a click
resolveCommission(cats, category, productName) ==
  resolveExplicit(cats, productName, IF falsy(category) THEN "Uncategorized" ELSE category)

(***************************************************************************)
(* Bounds and request inputs                                               *)
(***************************************************************************)
MaxClicks == 1
MaxWithdrawals == 1
MaxProcs == 2

Procs == 1..MaxProcs

Idle == [pc |-> "idle"]

Response(op, code) == [op |-> op, code |-> code]

NoResponse == Response("none", 0)

Num(v) == [t |-> "number", v |-> v]
Str(v) == [t |-> "string", v |-> v]
Absent == [t |-> "other"]

Body(user, referralCode, agentId, category, productName, price) ==
  [user |-> user, asin |-> "B00TEST001", productName |-> productName,
   category |-> category, price |-> price, productUrl |-> "https://amzn.example/dp/B00TEST001",
   referralCode |-> referralCode, agentId |-> agentId]

\* catalogues of Category Rules the store may hold
CatalogA ==
  << Rule("Electronics", "Electronics", 5, <<"gadget">>, "active"),
     Rule("Books", "Books", 2, <<"novel">>, "active"),
     Rule("Watches", "Watches", 0, <<>>, "active"),
     Rule("Home Decor", "HomeAndKitchen", 8, <<"sofa">>, "inactive") >>

CatalogB ==
  << Rule("Car Electronics", "Automotive", 3, <<>>, "active"),
     Rule("Electronics", "Electronics", 7, <<>>, "active"),
     Rule("Watches", "Watches", 4, <<"chronograph">>, "active") >>

CatalogC == << >>

CatalogD ==
  << Rule("Gadgets", "All", 6, <<"paperback", "tv">>, "active"),
     Rule("Books", "Books", 10, <<>>, "active"),
     Rule("Televisions", "Electronics", 12, <<>>, "active") >>

CatalogE ==
  << Rule("Gaming", "VideoGames", 4, <<>>, "active"),
     Rule("Kids Corner", "ToysAndGames", 9, <<>>, "active"),
     Rule("Travel Gear", "Luggage", 7, <<"trolley">>, "active"),
     Rule("Pantry", "GroceryAndGourmetFood", 6, <<>>, "active") >>

Catalogs == {CatalogA, CatalogB, CatalogC, CatalogD, CatalogE}

\* click requests that vary who acts, the referral code and the agentId field
AttributionInputs ==
  { Body(u, rc, ag, NULL, "Pen", p) :
      u \in UserIds \cup {NULL},
      rc \in {NULL, "AGT1", " agt1 ", "ADM2", "NOPE"},
      ag \in {NULL, "a2"},
      p \in {Num(10000), Absent} }

\* click requests that vary the category and the product name
ResolutionInputs ==
  { Body(u, NULL, NULL, c, n, Num(10000)) :
      u \in {"a1"},
      c \in {NULL, "books", "ELECTRONICS", "Watches", "Mobiles", "Gizmos", "Uncategorized", "sofa",
             "Automotive", "Luggage", "ToysAndGames"},
      n \in {"Samsung 55-inch Smart LED TV", "LED TV guide", "sealed box", "a novel",
             "smart watch tv", "Pen"} }

\* click requests that vary the price
PriceInputs ==
  { Body(u, NULL, NULL, NULL, "Pen", p) :
      u \in {"a1", NULL},
      p \in {Num(0), Num(-500), Num(250), Str("$12.50"), Str("-5"), Str("free"),
             Str("0"), Str("0.00"), Absent} }

\* click requests the validation or the ProductClick schema rejects
InvalidInputs ==
  { [Body("a1", NULL, NULL, NULL, "Pen", Num(10000)) EXCEPT !.asin = NULL],
    [Body("a1", NULL, NULL, NULL, "Pen", Num(10000)) EXCEPT !.productName = ""],
    [Body("a1", NULL, NULL, NULL, "Pen", Num(10000)) EXCEPT !.productName = "  "],
    [Body("a1", NULL, NULL, NULL, "Pen", Num(10000)) EXCEPT !.productUrl = NULL],
    Body("a1", NULL, NULL, "  ", "Pen", Num(10000)) }

TrackInputs == AttributionInputs \cup ResolutionInputs \cup PriceInputs \cup InvalidInputs

\* the click requests of the ledger specification
LedgerInputs ==
  { Body(u, NULL, NULL, "Electronics", "Pen", p) : u \in {"a1", "u2"}, p \in {Num(10000), Num(0)} }

\* the commissionRate values an administrator submits
RateInputs == {"2.5%", "0", "n/a", "250"}

StatusInputs == {"completed", "failed", "approved"}

WithdrawalStatusInputs == {"approved", "rejected", "failed"}

WithdrawalAmounts == {0, 500000, 2000000}

(***************************************************************************)
(* trackProductClick, continued: the handler                               *)
(***************************************************************************)
Click(user, asin, productName, category, price, productUrl, agent, commissionRate) ==
  [user |-> user, asin |-> asin, productName |-> productName, category |-> category,
   price |-> price, productUrl |-> productUrl, agent |-> agent,
   commissionRate |-> commissionRate]

Transaction(user, type, amount, status, referenceId, referenceModel) ==
  [user |-> user, type |-> type, amount |-> amount, status |-> status,
   referenceId |-> referenceId, referenceModel |-> referenceModel]

\* variant: the price and amount guards are left out
opensTransaction_agentOnly(agentId, price, commissionAmount) == agentId # NULL

\* the guard of the commission transaction
opensTransaction(agentId, price, commissionAmount) ==
  agentId # NULL /\ price > 0 /\ commissionAmount > 0

\* variant: status is left to the schema default, completed
commissionTransaction_defaultStatus(agentId, commissionAmount, clickId) ==
  Transaction(agentId, "earnings", commissionAmount, "completed", clickId, "ProductClick")

\* the pending commission transaction of a click
commissionTransaction(agentId, commissionAmount, clickId) ==
  Transaction(agentId, "earnings", commissionAmount, "pending", clickId, "ProductClick")

\* ProductClick.create, the commission transaction and the 201 response
createClick(b, price, agentId, r) ==
  /\ clicks' = Append(clicks,
        Click(b.user, trim(b.asin), trim(b.productName), trim(r.category), price,
              trim(b.productUrl), agentId, r.rate))
  /\ transactions' =
       IF opensTransaction(agentId, price, price * r.rate)
       THEN Append(transactions, commissionTransaction(agentId, price * r.rate, Len(clicks) + 1))
       ELSE transactions
  /\ res' = Response("trackProductClick", 201)

\* a required string path of the ProductClick schema is empty once trimmed
failsValidation(b, r) ==
  \/ falsy(b.productUrl)
  \/ trim(b.productUrl) = ""
  \/ trim(b.asin) = ""
  \/ trim(b.productName) = ""
  \/ trim(r.category) = ""

\* ProductClick.create with the resolved category and rate, and what follows
storeClick(b, r) ==
  IF failsValidation(b, r)
  THEN \* ProductClick.create rejects the document
       /\ res' = Response("trackProductClick", 400)
       /\ UNCHANGED <<clicks, transactions>>
  ELSE createClick(b, sanitizePrice(b.price), attributeAgent(b), r)

\* the earlier handler: 2% of the price is credited with the click
accountsAfterClick_credited(b, held) ==
  IF attributeAgent(b) # NULL /\ sanitizePrice(b.price) > 0
  THEN [held EXCEPT ![attributeAgent(b)] = @ + sanitizePrice(b.price) * DefaultRate]
  ELSE held

\* User.balance / User.totalEarnings after the request: the handler updates
\* no User document, the commission waits as a pending transaction
accountsAfterClick(b, held) == held

trackProductClick(b) ==
  /\ req' = b
  /\ IF falsy(b.asin) \/ falsy(b.productName)
     THEN /\ res' = Response("trackProductClick", 400)
          /\ UNCHANGED <<clicks, transactions>>
     ELSE storeClick(b, resolveCommission(categories, b.category, b.productName))
  /\ balance' = accountsAfterClick(b, balance)
  /\ totalEarnings' = accountsAfterClick(b, totalEarnings)
  /\ UNCHANGED <<service, http, signatures, categories, withdrawals, procs>>

(***************************************************************************)
(* updateClickCommission (controllers/analyticsController)                 *)
(***************************************************************************)
\* Transaction.findOne({ referenceId, referenceModel }): _id or 0
\* variant: the lookup finds nothing
findByReference_none(txs, id, model) == 0

findByReference(txs, id, model) ==
  FirstIdx(txs, LAMBDA t : t.referenceId = id /\ t.referenceModel = model)

\* variant: a zero amount is written without cancelling the transaction
adjustTransaction_keepStatus(txs, t, newAmount) ==
  [txs EXCEPT ![t].amount = IF newAmount > 0 THEN newAmount ELSE 0]

\* the linked transaction t takes the new amount, or is cancelled at 0
adjustTransaction(txs, t, newAmount) ==
  IF newAmount > 0
  THEN [txs EXCEPT ![t].amount = newAmount]
  ELSE [txs EXCEPT ![t].amount = 0, ![t].status = "failed"]

updateClickCommission(id, commissionRate) ==
  /\ LET sanitizedRate == stripNonNumeric(commissionRate)
         decimalRate == parseFloat100(sanitizedRate)
     IN  IF sanitizedRate = "" \/ decimalRate = NaN
         THEN /\ res' = Response("updateClickCommission", 400)
              /\ UNCHANGED <<clicks, transactions>>
         ELSE IF id \notin DOMAIN clicks
         THEN /\ res' = Response("updateClickCommission", 404)
              /\ UNCHANGED <<clicks, transactions>>
         ELSE LET click == clicks[id]
                  t == findByReference(transactions, id, "ProductClick")
                  newAmount == click.price * decimalRate
              IN  /\ clicks' = [clicks EXCEPT ![id].commissionRate = decimalRate]
                  /\ transactions' =
                       IF t # 0
                       THEN adjustTransaction(transactions, t, newAmount)
                       ELSE IF newAmount > 0 /\ click.agent # NULL
                            THEN Append(transactions,
                                   Transaction(click.agent, "earnings", newAmount, "pending",
                                               id, "ProductClick"))
                            ELSE transactions
                  /\ res' = Response("updateClickCommission", 200)
  /\ UNCHANGED <<service, http, signatures, categories, withdrawals, balance, totalEarnings, procs, req>>

(***************************************************************************)
(* updateTransactionStatus (controllers/adminController), one action per   *)
(* database operation the handler awaits                                   *)
(***************************************************************************)
\* variant: the status of the loaded transaction is not checked
alreadyProcessed_never(transaction) == FALSE

\* transaction.status !== 'pending'
alreadyProcessed(transaction) == transaction.status # "pending"

\* Transaction.findById and the checks that follow it
updateTransactionStatus_findById(r, id, status) ==
  /\ procs[r].pc = "idle"
  /\ IF id \notin DOMAIN transactions
     THEN /\ res' = Response("updateTransactionStatus", 404)
          /\ UNCHANGED procs
     ELSE IF alreadyProcessed(transactions[id])
     THEN /\ res' = Response("updateTransactionStatus", 400)
          /\ UNCHANGED procs
     ELSE IF status = "completed"
     THEN /\ procs' = [procs EXCEPT ![r] =
                 [pc |-> IF transactions[id].type = "earnings" THEN "uts_inc" ELSE "uts_save",
                  id |-> id, doc |-> [transactions[id] EXCEPT !.status = "completed"]]]
          /\ UNCHANGED res
     ELSE IF status = "failed"
     THEN /\ procs' = [procs EXCEPT ![r] =
                 [pc |-> "uts_save", id |-> id,
                  doc |-> [transactions[id] EXCEPT !.status = "failed"]]]
          /\ UNCHANGED res
     ELSE /\ res' = Response("updateTransactionStatus", 400)
          /\ UNCHANGED procs
  /\ UNCHANGED <<service, http, signatures, categories, clicks, transactions, withdrawals, balance, totalEarnings, req>>

\* variant: only the balance is incremented
updateTransactionStatus_inc_balanceOnly(r) ==
  /\ procs[r].pc = "uts_inc"
  /\ balance' = [balance EXCEPT ![procs[r].doc.user] = @ + procs[r].doc.amount]
  /\ procs' = [procs EXCEPT ![r].pc = "uts_save"]
  /\ UNCHANGED <<service, http, signatures, categories, clicks, transactions, withdrawals, totalEarnings, req, res>>

\* User.findByIdAndUpdate(transaction.user, { $inc: { balance, totalEarnings } })
updateTransactionStatus_inc(r) ==
  /\ procs[r].pc = "uts_inc"
  /\ LET doc == procs[r].doc
     IN  /\ balance' = [balance EXCEPT ![doc.user] = @ + doc.amount]
         /\ totalEarnings' = [totalEarnings EXCEPT ![doc.user] = @ + doc.amount]
  /\ procs' = [procs EXCEPT ![r].pc = "uts_save"]
  /\ UNCHANGED <<service, http, signatures, categories, clicks, transactions, withdrawals, req, res>>

\* transaction.save(): the modified path, status, is written
updateTransactionStatus_save(r) ==
  /\ procs[r].pc = "uts_save"
  /\ transactions' = [transactions EXCEPT ![procs[r].id].status = procs[r].doc.status]
  /\ res' = Response("updateTransactionStatus", 200)
  /\ procs' = [procs EXCEPT ![r] = Idle]
  /\ UNCHANGED <<service, http, signatures, categories, clicks, withdrawals, balance, totalEarnings, req>>

(***************************************************************************)
(* createWithdrawal (controllers/withdrawalController)                     *)
(***************************************************************************)
Withdrawal(user, amount, status) == [user |-> user, amount |-> amount, status |-> status]

\* one currency unit, the least amount the Withdrawal schema accepts
MinWithdrawal == 1000000

\* the request validation, User.findById and the balance check
createWithdrawal_findUser(r, userId, amount) ==
  /\ procs[r].pc = "idle"
  /\ IF amount <= 0
     THEN /\ res' = Response("createWithdrawal", 400)
          /\ UNCHANGED procs
     ELSE IF Users[userId].role # "agent"
     THEN /\ res' = Response("createWithdrawal", 400)
          /\ UNCHANGED procs
     ELSE IF balance[userId] < amount
     THEN /\ res' = Response("createWithdrawal", 400)
          /\ UNCHANGED procs
     ELSE /\ procs' = [procs EXCEPT ![r] =
                 [pc |-> "cw_findPending", user |-> userId, amount |-> amount]]
          /\ UNCHANGED res
  /\ UNCHANGED <<service, http, signatures, categories, clicks, transactions, withdrawals, balance, totalEarnings, req>>

\* Withdrawal.findOne({ user, status: 'pending' })
createWithdrawal_findPending(r) ==
  /\ procs[r].pc = "cw_findPending"
  /\ IF \E i \in DOMAIN withdrawals :
          withdrawals[i].user = procs[r].user /\ withdrawals[i].status = "pending"
     THEN /\ res' = Response("createWithdrawal", 400)
          /\ procs' = [procs EXCEPT ![r] = Idle]
     ELSE /\ procs' = [procs EXCEPT ![r].pc = "cw_create"]
          /\ UNCHANGED res
  /\ UNCHANGED <<service, http, signatures, categories, clicks, transactions, withdrawals, balance, totalEarnings, req>>

\* Withdrawal.create
createWithdrawal_create(r) ==
  /\ procs[r].pc = "cw_create"
  /\ IF procs[r].amount < MinWithdrawal
     THEN /\ res' = Response("createWithdrawal", 400)
          /\ UNCHANGED withdrawals
     ELSE /\ withdrawals' = Append(withdrawals, Withdrawal(procs[r].user, procs[r].amount, "pending"))
          /\ res' = Response("createWithdrawal", 201)
  /\ procs' = [procs EXCEPT ![r] = Idle]
  /\ UNCHANGED <<service, http, signatures, categories, clicks, transactions, balance, totalEarnings, req>>

(***************************************************************************)
(* updateWithdrawalStatus (controllers/adminController)                    *)
(***************************************************************************)
\* Withdrawal.findById and the checks that follow it
updateWithdrawalStatus_findById(r, id, status) ==
  /\ procs[r].pc = "idle"
  /\ IF id \notin DOMAIN withdrawals
     THEN /\ res' = Response("updateWithdrawalStatus", 404)
          /\ UNCHANGED procs
     ELSE IF withdrawals[id].status # "pending" /\ status # "failed"
     THEN /\ res' = Response("updateWithdrawalStatus", 400)
          /\ UNCHANGED procs
     ELSE /\ procs' = [procs EXCEPT ![r] =
                 [pc |-> IF status = "approved" THEN "uws_findUser" ELSE "uws_save",
                  id |-> id,
                  doc |-> IF status = "rejected"
                          THEN [withdrawals[id] EXCEPT !.status = "rejected"]
                          ELSE withdrawals[id],
                  dirty |-> (status = "rejected"), newBalance |-> 0]]
          /\ UNCHANGED res
  /\ UNCHANGED <<service, http, signatures, categories, clicks, transactions, withdrawals, balance, totalEarnings, req>>

\* User.findById(withdrawal.user), the balance check, user.balance -= amount
updateWithdrawalStatus_findUser(r) ==
  /\ procs[r].pc = "uws_findUser"
  /\ LET doc == procs[r].doc
     IN  IF balance[doc.user] < doc.amount
         THEN /\ res' = Response("updateWithdrawalStatus", 400)
              /\ procs' = [procs EXCEPT ![r] = Idle]
         ELSE /\ procs' = [procs EXCEPT ![r].pc = "uws_saveUser",
                                        ![r].newBalance = balance[doc.user] - doc.amount]
              /\ UNCHANGED res
  /\ UNCHANGED <<service, http, signatures, categories, clicks, transactions, withdrawals, balance, totalEarnings, req>>

\* variant: the amount is taken off once more when the user is saved
updateWithdrawalStatus_saveUser_deductTwice(r) ==
  /\ procs[r].pc = "uws_saveUser"
  /\ balance' = [balance EXCEPT ![procs[r].doc.user] = procs[r].newBalance - procs[r].doc.amount]
  /\ procs' = [procs EXCEPT ![r].pc = "uws_createTx"]
  /\ UNCHANGED <<service, http, signatures, categories, clicks, transactions, withdrawals, totalEarnings, req, res>>

\* user.save(): the modified path, balance, is set to the value computed
updateWithdrawalStatus_saveUser(r) ==
  /\ procs[r].pc = "uws_saveUser"
  /\ balance' = [balance EXCEPT ![procs[r].doc.user] = procs[r].newBalance]
  /\ procs' = [procs EXCEPT ![r].pc = "uws_createTx"]
  /\ UNCHANGED <<service, http, signatures, categories, clicks, transactions, withdrawals, totalEarnings, req, res>>

\* Transaction.create of the payout, then withdrawal.status = 'approved'
updateWithdrawalStatus_createTx(r) ==
  /\ procs[r].pc = "uws_createTx"
  /\ transactions' = Append(transactions,
        Transaction(procs[r].doc.user, "payout", 0 - procs[r].doc.amount, "completed",
                    procs[r].id, "Withdrawal"))
  /\ procs' = [procs EXCEPT ![r].pc = "uws_save", ![r].doc.status = "approved",
                             ![r].dirty = TRUE]
  /\ UNCHANGED <<service, http, signatures, categories, clicks, withdrawals, balance, totalEarnings, req, res>>

\* withdrawal.save(): status is written when the handler changed it
updateWithdrawalStatus_save(r) ==
  /\ procs[r].pc = "uws_save"
  /\ withdrawals' = IF procs[r].dirty
                    THEN [withdrawals EXCEPT ![procs[r].id].status = procs[r].doc.status]
                    ELSE withdrawals
  /\ res' = Response("updateWithdrawalStatus", 200)
  /\ procs' = [procs EXCEPT ![r] = Idle]
  /\ UNCHANGED <<service, http, signatures, categories, clicks, transactions, balance, totalEarnings, req>>

(***************************************************************************)
(* AmazonAPIService (services/amazonApiService): the signed request client *)
(*                                                                         *)
(* A result is {success, error, statusCode, data}; a field the code leaves *)
(* out is Absent (statusCode: 0).  The Message of an error, its human      *)
(* text, is not modelled.                                                  *)
(***************************************************************************)
UndefinedValue == [t |-> "undefined"]
NullValue == [t |-> "null"]
Options(resources) == [t |-> "object", resources |-> resources]

\* the region of the default marketplace, www.amazon.in
DefaultRegion == "eu-west-1"

\* the instance fields read from the environment by the constructor
Service(accessKey, secretKey, partnerTag) ==
  [accessKey |-> accessKey, secretKey |-> secretKey, partnerTag |-> partnerTag,
   region |-> DefaultRegion]

Configured == Service("AKIAEXAMPLE", "secret", "hascart-21")

\* what the transport does with one request
Answer(status, data) == [kind |-> "response", status |-> status, data |-> data, code |-> NULL]
NoAnswer(code) == [kind |-> "noResponse", status |-> 0, data |-> Absent, code |-> code]
NotSent(code) == [kind |-> "notSent", status |-> 0, data |-> Absent, code |-> code]
SigningError == [kind |-> "signing", status |-> 0, data |-> Absent, code |-> NULL]

Result(success, error, statusCode, data) ==
  [success |-> success, error |-> error, statusCode |-> statusCode, data |-> data]

HttpError(code, type, statusCode) == [Code |-> code, Type |-> type, StatusCode |-> statusCode]

\* what a try block ends with: a returned value or a thrown error
Returned(value) == [thrown |-> FALSE, value |-> value]
Thrown(error) == [thrown |-> TRUE, value |-> error]

startsWith(s, prefix) == Len(s) >= Len(prefix) /\ SubSeq(s, 1, Len(prefix)) = prefix

\* typeof data === 'string' && data.trim().startsWith('<!DOCTYPE')
isHTML(data) == data.t = "string" /\ startsWith(trim(data.v), "<!DOCTYPE")

\* responseData?.Errors && Array.isArray(responseData.Errors) && responseData.Errors.length > 0
hasErrors(data) == data.t = "object" /\ "Errors" \in DOMAIN data /\ Len(data.Errors) > 0

\* `HTTP_${statusCode}`
HttpCode(statusCode) == "HTTP_" \o ToString(statusCode)

missingCredentials_keysOnly(svc) == falsy(svc.accessKey) \/ falsy(svc.secretKey)

missingCredentials(svc) ==
  falsy(svc.accessKey) \/ falsy(svc.secretKey) \/ falsy(svc.partnerTag)

\* validateStatus: (status) => status < 600
validateStatus(status) == status < 600

\* the HTML branch of a resolved response
resolvedErrorType(statusCode) ==
  IF statusCode = 503 THEN "ServiceUnavailable"
  ELSE IF statusCode = 400 THEN "BadRequest"
  ELSE "InvalidResponse"

\* the HTML branch of the catch block
rejectedErrorType(statusCode) ==
  IF statusCode = 503 THEN "ServiceUnavailable"
  ELSE IF statusCode = 400 THEN "BadRequest"
  ELSE IF statusCode = 401 THEN "Unauthorized"
  ELSE IF statusCode = 403 THEN "Forbidden"
  ELSE IF statusCode = 429 THEN "TooManyRequests"
  ELSE IF statusCode >= 500 THEN "ServerError"
  ELSE "RequestError"

\* response.status || 503
statusOr503(status) == IF status = 0 THEN 503 ELSE status

\* a resolved response taken as JSON whatever it is
handleResponse_jsonOnly(status, data) ==
  IF hasErrors(data) THEN Result(FALSE, data.Errors[1], 0, data)
  ELSE Result(TRUE, Absent, 0, data)

\* makeRequest after axios resolved
handleResponse(status, data) ==
  IF isHTML(data)
    THEN Result(FALSE,
                HttpError(HttpCode(statusOr503(status)),
                          resolvedErrorType(statusOr503(status)), statusOr503(status)),
                statusOr503(status), Absent)
  ELSE IF hasErrors(data) THEN Result(FALSE, data.Errors[1], 0, data)
  ELSE Result(TRUE, Absent, 0, data)

\* the catch block, error.response set
handleErrorResponse(status, data) ==
  IF isHTML(data)
    THEN Result(FALSE, HttpError(HttpCode(status), rejectedErrorType(status), status),
                status, Absent)
  ELSE IF data.t = "object" THEN Result(FALSE, data, status, Absent)
  ELSE Result(FALSE, [Code |-> HttpCode(status), StatusCode |-> status], status, Absent)

\* the catch block of makeRequest
handleError(error) ==
  IF error.kind = "response" THEN handleErrorResponse(error.status, error.data)
  ELSE IF error.kind = "noResponse"
    THEN Result(FALSE,
                HttpError(IF error.code = "ECONNABORTED" THEN "TimeoutError" ELSE "NetworkError",
                          "ConnectionError", 503),
                503, Absent)
  ELSE IF error.code = "ECONNABORTED"
    THEN Result(FALSE, HttpError("TimeoutError", "TimeoutError", 504), 504, Absent)
  ELSE Result(FALSE, HttpError("RequestError", "UnknownError", 500), 500, Absent)

\* axios.post is reached: the credentials are there and the request is signed
posts(svc, outcome) == ~missingCredentials(svc) /\ outcome.kind # "signing"

\* the try block of makeRequest
tryRequest(svc, outcome) ==
  IF missingCredentials(svc)
    THEN Returned(Result(FALSE, [Code |-> "MissingCredentials"], 0, Absent))
  ELSE IF outcome.kind = "response" /\ validateStatus(outcome.status)
    THEN Returned(handleResponse(outcome.status, outcome.data))
  ELSE Thrown(outcome)

\* a try block without its catch
settle_uncaught(attempt) == attempt

\* try { ... } catch (error) { ... }: what makeRequest ends with
settle(attempt) == IF attempt.thrown THEN Returned(handleError(attempt.value)) ELSE attempt

makeRequest(svc, outcome) == settle(tryRequest(svc, outcome))

\* const operationPath = `/${operation.toLowerCase()}`
operationPath(operation) == "/" \o toLowerCase(operation)

\* the operation a method of the service asks for
operationOf(method) ==
  CASE method = "searchItems" -> "SearchItems"
    [] method = "getItems" -> "GetItems"
    [] method = "getBrowseNodes" -> "GetBrowseNodes"

\* options = {}: the default of a parameter left out
optionsOrDefault(options) == IF options = UndefinedValue THEN Options(NULL) ELSE options

\* building the payload reads options.resources
buildsPayload(options) == options.t \notin {"null", "undefined"}

\* searchItems, getItems, getBrowseNodes: the payload, then makeRequest
callService(svc, options, outcome) ==
  IF buildsPayload(optionsOrDefault(options))
    THEN makeRequest(svc, outcome)
    ELSE Thrown([kind |-> "TypeError"])

(***************************************************************************)
(* generateSignature: AWS Signature Version 4 of one request               *)
(*                                                                         *)
(* A digest stands for what was hashed: sha256 and createHmac build the    *)
(* term of their arguments, so two digests are equal exactly when what     *)
(* went into them is.  A headers object is its own keys in insertion       *)
(* order, each with its value.                                             *)
(***************************************************************************)
Algorithm == "AWS4-HMAC-SHA256"

SigningService == "ProductAdvertisingAPI"

\* crypto.createHash('sha256').update(data).digest('hex')
sha256(data) == <<"sha256", data>>

\* crypto.createHmac('sha256', key).update(data).digest()
createHmac(key, data) == <<"hmac", key, data>>

Header(key, value) == [key |-> key, value |-> value]

\* headers[name]: undefined when the object has no such key
headerValue(headers, name) ==
  IF \E i \in DOMAIN headers : headers[i].key = name
    THEN headers[CHOOSE i \in DOMAIN headers : headers[i].key = name].value
    ELSE NULL

\* headers['X-Amz-Date'] || headers['x-amz-date']
timestampOf(headers) ==
  IF ~falsy(headerValue(headers, "X-Amz-Date"))
    THEN headerValue(headers, "X-Amz-Date")
    ELSE headerValue(headers, "x-amz-date")

\* timestamp.substr(0, 8)
dateOf(timestamp) ==
  SubSeq(timestamp, 1, IF Len(timestamp) < 8 THEN Len(timestamp) ELSE 8)

\* { ...headers, 'host': host }: an own key keeps its place, a new one goes last
headersWithHost(headers, host) ==
  IF \E i \in DOMAIN headers : headers[i].key = "host"
    THEN [i \in DOMAIN headers |->
            IF headers[i].key = "host" THEN Header("host", host) ELSE headers[i]]
    ELSE Append(headers, Header("host", host))

\* the lower-cased header names that occur, in the order sort() puts strings
HeaderNameOrder ==
  <<"content-encoding", "content-type", "host", "x-amz-date", "x-amz-target">>

\* the keys of the object that give this name in lower case
named(headers, name) == { i \in DOMAIN headers : toLowerCase(headers[i].key) = name }

RECURSIVE sortedFrom(_, _)
sortedFrom(headers, n) ==
  IF n > Len(HeaderNameOrder) THEN << >>
  ELSE [i \in 1..Cardinality(named(headers, HeaderNameOrder[n])) |-> HeaderNameOrder[n]]
         \o sortedFrom(headers, n + 1)

\* Object.keys(headersWithHost).map(key => key.toLowerCase()).sort()
sortedHeaderKeys(headers) == sortedFrom(headers, 1)

\* Object.keys(headersWithHost).find(k => k.toLowerCase() === key)
first(indices) == CHOOSE i \in indices : \A j \in indices : i <= j

originalKey(headers, name) == first(named(headers, name))

RECURSIVE join(_, _)
join(parts, separator) ==
  IF parts = << >> THEN ""
  ELSE IF Len(parts) = 1 THEN parts[1]
  ELSE parts[1] \o separator \o join(Tail(parts), separator)

\* `${key}:${String(value).trim()}\n` of every sorted key, joined
canonicalLine(headers, key) ==
  key \o ":" \o trim(headers[originalKey(headers, key)].value) \o "\n"

canonicalLines(headers, keys) == [i \in DOMAIN keys |-> canonicalLine(headers, keys[i])]

canonicalHeaders(headers) == join(canonicalLines(headers, sortedHeaderKeys(headers)), "")

signedHeaders(headers) == join(sortedHeaderKeys(headers), ";")

\* the lines of the canonical request; the last is the digest of the payload
canonicalRequest(method, path, headers, payload) ==
  <<method, path, "", canonicalHeaders(headers), signedHeaders(headers), sha256(payload)>>

\* `${date}/${this.region}/${service}/aws4_request`
credentialScope(self, date) ==
  date \o "/" \o self.region \o "/" \o SigningService \o "/aws4_request"

stringToSign(self, timestamp, request) ==
  <<Algorithm, timestamp, credentialScope(self, dateOf(timestamp)), sha256(request)>>

\* kDate, kRegion, kService, kSigning
signingKey(self, date) ==
  createHmac(createHmac(createHmac(createHmac("AWS4" \o self.secretKey, date),
                                   self.region),
                        SigningService),
             "aws4_request")

\* the Authorization header, by its parts
authorization(self, timestamp, headers, request) ==
  [algorithm |-> Algorithm,
   Credential |-> self.accessKey \o "/" \o credentialScope(self, dateOf(timestamp)),
   SignedHeaders |-> signedHeaders(headers),
   Signature |-> createHmac(signingKey(self, dateOf(timestamp)),
                            stringToSign(self, timestamp, request))]

\* the signature of the request as it is at this time
signedAt(self, timestamp, method, path, headers, payload) ==
  IF falsy(timestamp)
    THEN Thrown([kind |-> "Error"])
    ELSE Returned([authorization |->
                     authorization(self, timestamp, headers,
                                   canonicalRequest(method, path, headers, payload))])

\* what new Date() gives, call after call
Clock == <<"20261104T101500Z", "20261104T101501Z", "20261105T000000Z">>

\* a signature dated by the clock, not by the X-Amz-Date header
generateSignature_clock(self, method, path, headers, payload, host) ==
  signedAt(self, Clock[(Len(signatures) % Len(Clock)) + 1], method, path,
           headersWithHost(headers, host), payload)

generateSignature(self, method, path, headers, payload, host) ==
  signedAt(self, timestampOf(headers), method, path, headersWithHost(headers, host), payload)

\* one call of generateSignature, as the log keeps it
Signing(self, method, path, headers, payload, host) ==
  [self |-> self, method |-> method, path |-> path, headers |-> headers,
   payload |-> payload, host |-> host,
   out |-> generateSignature(self, method, path, headers, payload, host)]

\* a direct call of generateSignature on the instance
callGenerateSignature(method, path, headers, payload, host) ==
  /\ signatures' = Append(signatures, Signing(service, method, path, headers, payload, host))
  /\ UNCHANGED <<service, http, categories, clicks, transactions, withdrawals, balance,
                 totalEarnings, procs, req, res>>

\* new URL(this.baseUrl).host and .pathname of the default marketplace
Host == "webservices.amazon.in"

BasePath == "/paapi5"

\* the headers makeRequest signs
requestHeaders(operation, timestamp) ==
  << Header("Content-Type", "application/json; charset=utf-8"),
     Header("Content-Encoding", "amz-1.0"),
     Header("X-Amz-Target", "com.amazon.paapi5.v1.ProductAdvertisingAPIv1." \o operation),
     Header("X-Amz-Date", timestamp) >>

\* JSON.stringify(payload): the payload by the parts that tell requests apart
payloadString(svc, operation, options) ==
  [Operation |-> operation, PartnerTag |-> svc.partnerTag,
   Resources |-> optionsOrDefault(options).resources]

\* the call of generateSignature makeRequest makes
signRequest(svc, operation, options, timestamp) ==
  Signing(svc, "POST", BasePath \o operationPath(operation),
          requestHeaders(operation, timestamp),
          payloadString(svc, operation, options), Host)

\* one call of a method of the service, with what the transport does with it
callClient(method, options, outcome) ==
  /\ res = NoResponse
  /\ req' = [method |-> method, options |-> options]
  /\ http' = IF posts(service, outcome)
               THEN Append(http, [path |-> operationPath(operationOf(method)),
                                  outcome |-> outcome])
               ELSE http
  /\ \E timestamp \in { Clock[i] : i \in DOMAIN Clock } :
       signatures' = IF posts(service, outcome)
                       THEN Append(signatures,
                                   signRequest(service, operationOf(method), options,
                                               timestamp))
                       ELSE signatures
  /\ res' = callService(service, options, outcome)
  /\ UNCHANGED <<service, categories, clicks, transactions, withdrawals, balance,
                 totalEarnings, procs>>

(***************************************************************************)
(* Specifications                                                          *)
(***************************************************************************)
NoRequest == [Body(NULL, NULL, NULL, NULL, "", Absent) EXCEPT !.asin = NULL]

\* the configured client, before its first request
IdleClient ==
  /\ service = Configured
  /\ http = << >>
  /\ signatures = << >>

EmptyStores ==
  /\ clicks = << >>
  /\ transactions = << >>
  /\ withdrawals = << >>
  /\ balance = [u \in UserIds |-> 0]
  /\ totalEarnings = [u \in UserIds |-> 0]
  /\ procs = [r \in Procs |-> Idle]
  /\ res = NoResponse

\* no request is between two of its database operations
Quiet == \A r \in Procs : procs[r].pc = "idle"

Ids(store) == 1..(Len(store) + 1)

TrackClick == \E b \in LedgerInputs : trackProductClick(b)

OverrideCommission == \E id \in Ids(clicks), rate \in RateInputs : updateClickCommission(id, rate)

BeginTransactionStatus(r) ==
  \E id \in Ids(transactions), status \in StatusInputs : updateTransactionStatus_findById(r, id, status)

BeginCreateWithdrawal(r) ==
  \E u \in {"a1", "u1"}, amount \in WithdrawalAmounts : createWithdrawal_findUser(r, u, amount)

BeginWithdrawalStatus(r) ==
  \E id \in Ids(withdrawals), status \in WithdrawalStatusInputs :
    updateWithdrawalStatus_findById(r, id, status)

\* the next database operation of a withdrawal request in flight
ContinueWithdrawal(r) ==
  \/ createWithdrawal_findPending(r)
  \/ createWithdrawal_create(r)

\* the next database operation of an administrative request in flight
Continue(r) ==
  \/ updateTransactionStatus_inc(r)
  \/ updateTransactionStatus_save(r)
  \/ updateWithdrawalStatus_findUser(r)
  \/ updateWithdrawalStatus_saveUser(r)
  \/ updateWithdrawalStatus_createTx(r)
  \/ updateWithdrawalStatus_save(r)

\* Requests served one at a time, from empty stores.
Init ==
  /\ IdleClient
  /\ categories = CatalogA
  /\ req = NoRequest
  /\ EmptyStores

Next ==
  \/ Quiet /\ Len(clicks) < MaxClicks /\ TrackClick
  \/ Quiet /\ OverrideCommission
  \/ Quiet /\ BeginTransactionStatus(1)
  \/ Quiet /\ Len(withdrawals) < MaxWithdrawals /\ BeginCreateWithdrawal(1)
  \/ Quiet /\ BeginWithdrawalStatus(1)
  \/ ContinueWithdrawal(1)
  \/ Continue(1)

Spec == Init /\ [][Next]_vars

\* One click request, drawn with the catalogue, on empty stores.
InitTrack ==
  /\ IdleClient
  /\ categories \in Catalogs
  /\ req \in TrackInputs
  /\ EmptyStores

NextTrack == res = NoResponse /\ trackProductClick(req)

SpecTrack == InitTrack /\ [][NextTrack]_vars

\* Administrative requests interleaved at their database operations.  The
\* stores start as two clicks of agent a1 leave them once the first
\* commission is approved and a1 has asked for a withdrawal.
\* what agent a1 holds when the interleaving starts: the first commission
ConcStartBalance == 10000 * 500

ConcClick(rate) ==
  Click("a1", "B00TEST001", "Pen", "Electronics", 10000,
        "https://amzn.example/dp/B00TEST001", "a1", rate)

InitConc ==
  /\ IdleClient
  /\ categories = CatalogA
  /\ req = Body("a1", NULL, NULL, "Electronics", "Pen", Num(10000))
  /\ \E rate \in {500, 250}, d \in WithdrawalAmounts :
       /\ clicks = << ConcClick(500), ConcClick(rate) >>
       /\ transactions =
            << Transaction("a1", "earnings", ConcStartBalance, "completed", 1, "ProductClick"),
               Transaction("a1", "earnings", 10000 * rate, "pending", 2, "ProductClick") >>
       /\ d >= MinWithdrawal
       /\ d <= ConcStartBalance
       /\ withdrawals = << Withdrawal("a1", d, "pending") >>
  /\ balance = [u \in UserIds |-> IF u = "a1" THEN ConcStartBalance ELSE 0]
  /\ totalEarnings = [u \in UserIds |-> IF u = "a1" THEN ConcStartBalance ELSE 0]
  /\ procs = [r \in Procs |-> Idle]
  /\ res \in {Response("createWithdrawal", 201)}

NextConc ==
  \E r \in Procs :
    \/ BeginTransactionStatus(r)
    \/ BeginWithdrawalStatus(r)
    \/ Continue(r)

SpecConc == InitConc /\ [][NextConc]_vars

\* Withdrawal requests interleaved at their database operations, once agent
\* a1 holds an approved commission.
InitWithdraw ==
  /\ IdleClient
  /\ categories = CatalogA
  /\ req = Body("a1", NULL, NULL, "Electronics", "Pen", Num(10000))
  /\ \E rate \in {500, 250} :
       /\ clicks = << ConcClick(rate) >>
       /\ transactions =
            << Transaction("a1", "earnings", 10000 * rate, "completed", 1, "ProductClick") >>
       /\ balance = [u \in UserIds |-> IF u = "a1" THEN 10000 * rate ELSE 0]
       /\ totalEarnings = [u \in UserIds |-> IF u = "a1" THEN 10000 * rate ELSE 0]
  /\ withdrawals = << >>
  /\ procs = [r \in Procs |-> Idle]
  /\ res = Response("updateTransactionStatus", 200)

NextWithdraw ==
  \E r \in Procs :
    \/ Len(withdrawals) < MaxWithdrawals /\ BeginCreateWithdrawal(r)
    \/ ContinueWithdrawal(r)

SpecWithdraw == InitWithdraw /\ [][NextWithdraw]_vars

\* One call of the client, for every set of credentials.
Services ==
  { Service(a, s, p) : a \in {NULL, "", "AKIAEXAMPLE"}, s \in {NULL, "secret"},
                       p \in {NULL, "hascart-21"} }

ClientMethods == {"searchItems", "getItems", "getBrowseNodes"}

\* what the callers of the service pass: an object, or nothing
OptionInputs == {UndefinedValue, Options(NULL), Options("ItemInfo.Title")}

Statuses == {200, 400, 401, 403, 404, 429, 500, 503, 599, 600}

ErrorsBody(errors) == [t |-> "object", Errors |-> errors]

Bodies ==
  { [t |-> "object", SearchResult |-> "items"],
    [t |-> "object", message |-> "Forbidden"],
    ErrorsBody(<< >>),
    ErrorsBody(<< [Code |-> "TooManyRequests"] >>),
    ErrorsBody(<< [Code |-> "InvalidParameterValue"], [Code |-> "ItemNotAccessible"] >>),
    Str("<!DOCTYPE html><title>Service Unavailable</title>"),
    Str("  <!DOCTYPE html>"),
    Str("<!doctype html>"),
    Str("Bad Gateway"),
    Str(""),
    Absent }

Outcomes ==
  { Answer(status, data) : status \in Statuses, data \in Bodies }
    \cup { NoAnswer(code) : code \in {"ECONNABORTED", "ECONNREFUSED"} }
    \cup { NotSent(code) : code \in {"ECONNABORTED", "ERR_INVALID_URL"} }
    \cup { SigningError }

InitClient ==
  /\ service \in Services
  /\ http = << >>
  /\ signatures = << >>
  /\ categories = CatalogA
  /\ req = NoRequest
  /\ EmptyStores

NextClient ==
  \E method \in ClientMethods, options \in OptionInputs, outcome \in Outcomes :
    callClient(method, options, outcome)

SpecClient == InitClient /\ [][NextClient]_vars

\* generateSignature called again and again on one instance, with a request
\* of the client in between.
MaxSignatures == 3

SigningInstances ==
  { Configured,
    [Configured EXCEPT !.region = "us-east-1"],
    [Configured EXCEPT !.accessKey = "AKIAOTHER", !.secretKey = "other"] }

StringPayload == Str("{\"Keywords\":\"pen\"}")

SignatureInputs ==
  { <<"POST", "/paapi5/searchitems", requestHeaders("SearchItems", Clock[1]), StringPayload, Host>>,
    <<"POST", "/paapi5/searchitems", requestHeaders("SearchItems", Clock[3]), StringPayload, Host>>,
    <<"POST", "/paapi5/searchitems", << Header("x-amz-date", Clock[1]) >>, StringPayload, Host>>,
    <<"POST", "/paapi5/searchitems",
      << Header("x-amz-date", Clock[1]), Header("X-Amz-Date", Clock[3]) >>, StringPayload, Host>>,
    <<"POST", "/paapi5/searchitems",
      << Header("X-Amz-Date", Clock[1]), Header("Content-Encoding", "  amz-1.0 "),
         Header("host", "other.example") >>, StringPayload, Host>>,
    <<"GET", "/paapi5/getitems", << Header("Content-Type", "application/json") >>,
      Str("{}"), "webservices.amazon.com">> }

RequestsBetween ==
  { Answer(200, [t |-> "object", SearchResult |-> "items"]), NoAnswer("ECONNREFUSED") }

InitSign ==
  /\ service \in SigningInstances
  /\ http = << >>
  /\ signatures = << >>
  /\ categories = CatalogA
  /\ req = NoRequest
  /\ EmptyStores

NextSign ==
  \/ \E input \in SignatureInputs :
       /\ Len(signatures) < MaxSignatures
       /\ callGenerateSignature(input[1], input[2], input[3], input[4], input[5])
  \/ \E method \in ClientMethods, outcome \in RequestsBetween :
       /\ Len(signatures) < MaxSignatures
       /\ callClient(method, Options(NULL), outcome)

SpecSign == InitSign /\ [][NextSign]_vars

\* resolveSearchIndex applied to a category, and once more to what it gave.
Keys(map) == { map[i][1] : i \in DOMAIN map }

Values(map) == { map[i][2] : i \in DOMAIN map }

IndexInputs ==
  Keys(SMART_MAP) \cup Values(SMART_MAP) \cup ObjectPrototypeKeys
    \cup { toLowerCase(k) : k \in Keys(SMART_MAP) }
    \cup { NULL, "", "All", "Gizmos", "Smart Watches for Men", "Kids Toys and Games",
           "Home Decor", "video games" }

Resolved(category, n) ==
  [op |-> "resolveSearchIndex", of |-> category, value |-> resolveSearchIndex(category), n |-> n]

resolveIndex ==
  /\ res = NoResponse
  /\ res' = Resolved(req, 1)
  /\ UNCHANGED <<service, http, signatures, categories, clicks, transactions, withdrawals, balance,
                 totalEarnings, procs, req>>

\* the index resolved is looked up in turn; a value that is not a string is
\* not fed back
resolveIndexAgain ==
  /\ res # NoResponse
  /\ res.n = 1
  /\ res.value \notin { Inherited(k) : k \in ObjectPrototypeKeys }
  /\ req' = res.value
  /\ res' = Resolved(res.value, 2)
  /\ UNCHANGED <<service, http, signatures, categories, clicks, transactions, withdrawals, balance,
                 totalEarnings, procs>>

InitIndex ==
  /\ IdleClient
  /\ categories = CatalogA
  /\ req \in IndexInputs
  /\ EmptyStores

NextIndex == resolveIndex \/ resolveIndexAgain

SpecIndex == InitIndex /\ [][NextIndex]_vars

(***************************************************************************)
(* Properties of one click request (SpecTrack)                             *)
(***************************************************************************)
\* the click request was answered 201 and its click is stored
Tracked == res = Response("trackProductClick", 201) /\ Len(clicks) = 1

\* the transactions that refer to click i
LinkedTransactions(i) ==
  { t \in DOMAIN transactions :
      transactions[t].referenceId = i /\ transactions[t].referenceModel = "ProductClick" }

\* the fractions a resolution can yield: a rule's percentage / 100, or 0.02
RuleFractions == {DefaultRate} \cup { Fraction(categories[k].percentage) : k \in DOMAIN categories }

\* C1: a click that attributes an agent and has price > 0 has exactly one
\* commission transaction; it is pending, owned by the attributed agent, and
\* its amount is price x resolved fraction (a rule's percentage / 100, or 0.02).
C1_PendingCommissionForAttributedClick ==
  Tracked =>
    LET c == clicks[1]
    IN  (c.agent # NULL /\ c.price > 0) =>
          /\ Cardinality(LinkedTransactions(1)) = 1
          /\ Len(transactions) = 1
          /\ \A t \in LinkedTransactions(1) :
               /\ transactions[t].type = "earnings"
               /\ transactions[t].status = "pending"
               /\ transactions[t].user = c.agent
               /\ transactions[t].amount = c.price * c.commissionRate
          /\ c.commissionRate \in RuleFractions

C1_witness ==
  /\ Tracked
  /\ req.price = Str("$12.50")
  /\ clicks[1].agent = "a1"
  /\ clicks[1].price = 1250
  /\ Len(transactions) = 1
  /\ transactions[1].amount = 1250 * DefaultRate

\* the request carries no positive price: the field is absent or of another
\* type, a number that is not positive, or a string without a digit 1..9
PriceNotPositive(price) ==
  \/ price.t = "other"
  \/ price.t = "number" /\ price.v <= 0
  \/ price.t = "string" /\ CharsOf(price.v) \cap CharsOf("123456789") = {}

HasRequiredFields(b) ==
  \A f \in {b.asin, b.productName, b.productUrl} : f # NULL /\ CharsOf(f) \ SpaceChars # {}

ChainAgent(b) ==
  IF b.user # NULL /\ Users[b.user].role \in {"agent", "admin"} THEN b.user
  ELSE LET byCode == IF falsy(b.referralCode) THEN NULL
                     ELSE findUserByReferralCode(toUpperCase(trim(b.referralCode)))
       IN  IF byCode # NULL THEN byCode
           ELSE IF b.user # NULL THEN Users[b.user].referredBy
           ELSE NULL

\* C6: the agent recorded on a click is the first match of the chain (acting
\* agent or admin, referral code, stored referrer, none); with none there is
\* no commission transaction; no other request input decides the agent.
C6_AgentIsFirstMatchOfChain ==
  Tracked =>
    /\ clicks[1].agent = ChainAgent(req)
    /\ ChainAgent(req) = NULL => transactions = << >>

\* C7: an input category that equals, case-insensitively, the name of an
\* active rule records that rule's name and exactly percentage / 100,
\* whatever the product name and the percentage.
C7_ExplicitCategoryBypassesSniffing ==
  (Tracked /\ req.category # NULL) =>
    \A k \in DOMAIN categories :
      (categories[k].status = "active"
         /\ toLowerCase(categories[k].name) = toLowerCase(req.category)) =>
        /\ clicks[1].category = categories[k].name
        /\ clicks[1].commissionRate = Fraction(categories[k].percentage)

\* term i of the sniffing table occurs in the product name as a whole word
TermOccurs(i, productName) == matchesWord(TRACK_SMART_MAP[i][1], productName)

\* C8 as stated: with no explicit category, a table term that occurs in the
\* product name as a whole word and an active rule whose search index equals
\* the term's hint make the click resolve to that rule and to its rate.
C8_SniffedTermResolvesToIndexRule ==
  (Tracked /\ req.category = NULL) =>
    \A i \in DOMAIN TRACK_SMART_MAP, k \in DOMAIN categories :
      (/\ TermOccurs(i, req.productName)
       /\ categories[k].status = "active"
       /\ categories[k].amazonSearchIndex = TRACK_SMART_MAP[i][2]) =>
        /\ clicks[1].category = categories[k].name
        /\ clicks[1].commissionRate = Fraction(categories[k].percentage)

\* rule c answers hint: its name contains the hint, case-insensitively, or
\* its search index equals it
AnswersHint(c, hint) ==
  \/ includes(toLowerCase(c.name), toLowerCase(hint))
  \/ c.amazonSearchIndex = hint

\* C8 as amended: with no explicit category, when a table term occurs in the
\* product name as a whole word and an active rule has the term's hint as
\* search index, the click resolves to the first active rule (store order)
\* that answers the hint of the first term (table order) that occurs and has
\* such a rule; the rate is that rule's percentage / 100 when it is > 0 and
\* stays 0.02 when it is 0.
C8_SniffedTermResolvesToFirstAnsweringRule ==
  (/\ Tracked
   /\ req.category = NULL
   /\ \E i \in DOMAIN TRACK_SMART_MAP, k \in DOMAIN categories :
        /\ TermOccurs(i, req.productName)
        /\ categories[k].status = "active"
        /\ categories[k].amazonSearchIndex = TRACK_SMART_MAP[i][2]) =>
    LET active == activeCategories(categories)
        decides(i) == /\ TermOccurs(i, req.productName)
                      /\ \E k \in DOMAIN active : AnswersHint(active[k], TRACK_SMART_MAP[i][2])
    IN  \E i \in DOMAIN TRACK_SMART_MAP :
          /\ decides(i)
          /\ \A j \in 1..(i - 1) : ~decides(j)
          /\ \E k \in DOMAIN active :
               /\ AnswersHint(active[k], TRACK_SMART_MAP[i][2])
               /\ \A m \in 1..(k - 1) : ~AnswersHint(active[m], TRACK_SMART_MAP[i][2])
               /\ clicks[1].category = active[k].name
               /\ clicks[1].commissionRate =
                    IF active[k].percentage > 0 THEN Fraction(active[k].percentage)
                    ELSE DefaultRate

C8_witness ==
  /\ Tracked
  /\ req.category = NULL
  /\ req.productName = "Samsung 55-inch Smart LED TV"
  /\ categories = CatalogB
  /\ clicks[1].category = "Car Electronics"
  /\ clicks[1].commissionRate = 300

C3_OverrideLeavesProcessedTransaction ==
  [][\A id \in DOMAIN clicks, rate \in RateInputs :
       LET t == findByReference(transactions, id, "ProductClick")
       IN  (t # 0 /\ transactions[t].status # "pending" /\ updateClickCommission(id, rate)) =>
             /\ transactions'[t].amount = transactions[t].amount
             /\ transactions'[t].status = transactions[t].status]_vars

\* C4: an override on a click whose linked transaction is pending sets the
\* amount to price x new fraction and keeps it pending when that is > 0;
\* when it is 0 the transaction is kept, with amount 0 and status failed.
C4_OverrideAdjustsPendingTransaction ==
  [][\A id \in DOMAIN clicks, rate \in RateInputs :
       LET t == findByReference(transactions, id, "ProductClick")
       IN  (/\ t # 0
            /\ transactions[t].status = "pending"
            /\ res' = Response("updateClickCommission", 200)
            /\ updateClickCommission(id, rate)) =>
             LET newAmount == clicks[id].price * clicks'[id].commissionRate
             IN  /\ rate = "2.5%" => clicks'[id].commissionRate = Fraction(2) + 50
                 /\ rate = "0" => clicks'[id].commissionRate = 0
                 /\ Len(transactions') = Len(transactions)
                 /\ transactions'[t].referenceId = id
                 /\ IF newAmount > 0
                    THEN /\ transactions'[t].amount = newAmount
                         /\ transactions'[t].status = "pending"
                    ELSE /\ transactions'[t].amount = 0
                         /\ transactions'[t].status = "failed"]_vars

C4_witness ==
  /\ res = Response("updateClickCommission", 200)
  /\ Len(clicks) = 1
  /\ clicks[1].commissionRate = 250
  /\ clicks[1].price = 10000
  /\ Len(transactions) = 1
  /\ transactions[1].status = "pending"
  /\ transactions[1].amount = 10000 * 250

\* earnings transaction t is completed after the step and was not before it
BecomesCompleted(t) ==
  /\ transactions'[t].type = "earnings"
  /\ transactions'[t].status = "completed"
  /\ t \in DOMAIN transactions => transactions[t].status # "completed"

\* C11: an earnings transaction is created pending; it becomes completed only
\* by the save of an updateTransactionStatus(completed) request on it while
\* it is pending; that request has then run its increment, which adds
\* exactly the transaction's amount to the owner's balance and totalEarnings
\* and to nobody else's.
C11_CompletedOnlyByApproval ==
  [][/\ \A t \in DOMAIN transactions' \ DOMAIN transactions :
          transactions'[t].type = "earnings" => transactions'[t].status = "pending"
     /\ \A t \in DOMAIN transactions' :
          BecomesCompleted(t) =>
            /\ t \in DOMAIN transactions
            /\ transactions[t].status = "pending"
            /\ procs[1].pc = "uts_save" /\ procs[1].id = t
            /\ res' = Response("updateTransactionStatus", 200)
            /\ balance' = balance /\ totalEarnings' = totalEarnings
     /\ (procs'[1].pc = "uts_save" /\ procs[1].pc # "uts_save"
           /\ procs'[1].doc.type = "earnings" /\ procs'[1].doc.status = "completed") =>
            LET t == procs'[1].id
                owner == transactions[t].user
            IN  /\ procs[1].pc = "uts_inc"
                /\ transactions[t].status = "pending"
                /\ transactions' = transactions
                /\ balance' = [balance EXCEPT ![owner] = @ + transactions[t].amount]
                /\ totalEarnings' = [totalEarnings EXCEPT ![owner] = @ + transactions[t].amount]]_vars

C11_witness ==
  /\ res = Response("updateTransactionStatus", 200)
  /\ Len(transactions) = 1
  /\ transactions[1].type = "earnings"
  /\ transactions[1].status = "completed"
  /\ transactions[1].amount > 0
  /\ balance["a1"] = transactions[1].amount
  /\ totalEarnings["a1"] = transactions[1].amount

(***************************************************************************)
(* Properties of interleaved administrative requests (SpecConc)            *)
(***************************************************************************)
\* C9: however updateTransactionStatus requests on the pending transaction
\* interleave, the owner's balance and totalEarnings are incremented by its
\* amount at most once.
C9_CreditedAtMostOnce ==
  /\ totalEarnings["a1"] <= ConcStartBalance + transactions[2].amount
  /\ balance["a1"] <= ConcStartBalance + transactions[2].amount

\* C10: when an earnings approval (credit c) and a withdrawal approval
\* (debit d) on the same agent have both succeeded, the balance is the
\* initial balance + c - d.
C10_NoLostBalanceUpdate ==
  (/\ Quiet
   /\ Len(transactions) = 3
   /\ transactions[2].status = "completed"
   /\ withdrawals[1].status = "approved"
   /\ totalEarnings["a1"] = ConcStartBalance + transactions[2].amount) =>
    balance["a1"] = ConcStartBalance + transactions[2].amount - withdrawals[1].amount

\* C29: however createWithdrawal requests of one agent interleave, the
\* agent has at most one withdrawal in status pending.
C29_OnePendingWithdrawal ==
  \A u \in UserIds :
    Cardinality({ i \in DOMAIN withdrawals :
                   withdrawals[i].user = u /\ withdrawals[i].status = "pending" }) <= 1

(***************************************************************************)
(* Properties of one call of the client (SpecClient)                       *)
(***************************************************************************)
\* the call has come back to its caller, by return or by throw
Called == res # NoResponse

\* one of the three credentials is not set, or set to the empty string
LacksCredential ==
  \E field \in {"accessKey", "secretKey", "partnerTag"} : service[field] \in {NULL, ""}

\* C12: with an access key, a secret key or a partner tag missing, a call of
\* searchItems, getItems or getBrowseNodes returns a failure whose code is
\* MissingCredentials, and no request is posted to the remote API.
C12_MissingCredentialsNoRequest ==
  (Called /\ LacksCredential) =>
    /\ req.method \in ClientMethods
    /\ ~res.thrown
    /\ res.value.success = FALSE
    /\ res.value.error.Code = "MissingCredentials"
    /\ http = << >>

C12_witness ==
  /\ Called
  /\ service.accessKey = "AKIAEXAMPLE"
  /\ service.secretKey = "secret"
  /\ service.partnerTag = NULL
  /\ req.method = "getBrowseNodes"
  /\ res.value.error.Code = "MissingCredentials"
  /\ http = << >>

Answered == Called /\ http # << >> /\ http[1].outcome.kind = "response"

\* C14: when the remote API answers with a status >= 400 and a JSON object
\* as body, makeRequest returns a failure whose error is that body, with or
\* without an Errors array in it, and never a success.
C14_JsonErrorBodyIsFailure ==
  (Answered /\ http[1].outcome.status >= 400 /\ http[1].outcome.data.t = "object") =>
    /\ ~res.thrown
    /\ res.value.success = FALSE
    /\ res.value.error = http[1].outcome.data

\* the body of the answer is a string that, trimmed, starts with <!DOCTYPE
AnsweredHTML ==
  /\ Answered
  /\ http[1].outcome.data.t = "string"
  /\ \E n \in 0..(Len(http[1].outcome.data.v) - 9) :
       /\ \A i \in 1..n : Ch(http[1].outcome.data.v, i) = " "
       /\ SubSeq(http[1].outcome.data.v, n + 1, n + 9) = "<!DOCTYPE"

\* C15: an answer whose body is a string that, trimmed, starts with
\* <!DOCTYPE is returned as a failure, never as a success, whatever its
\* status, 200 included.
C15_HtmlIsFailure ==
  AnsweredHTML => (~res.thrown /\ res.value.success = FALSE)

C15_witness ==
  /\ AnsweredHTML
  /\ http[1].outcome.status = 200
  /\ http[1].outcome.data.v = "  <!DOCTYPE html>"
  /\ res.value.success = FALSE
  /\ res.value.error.Code = "HTTP_200"

\* the error kind the status of an HTML answer stands for
KindOfStatus(status) ==
  IF status = 400 THEN {"BadRequest"}
  ELSE IF status = 401 THEN {"Unauthorized"}
  ELSE IF status = 403 THEN {"Forbidden"}
  ELSE IF status = 429 THEN {"TooManyRequests"}
  ELSE IF status >= 500 THEN {"ServerError", "ServiceUnavailable"}
  ELSE {"InvalidResponse"}

\* C16: the failure returned for an HTML answer has the error kind of the
\* answer's status: 400 BadRequest, 401 Unauthorized, 403 Forbidden, 429
\* TooManyRequests, 500 and above ServerError or ServiceUnavailable, any
\* other status InvalidResponse.
C16_HtmlKindFollowsStatus ==
  AnsweredHTML =>
    /\ ~res.thrown
    /\ res.value.success = FALSE
    /\ res.value.error.Type \in KindOfStatus(http[1].outcome.status)

(***************************************************************************)
(* Further properties of one click request (SpecTrack)                     *)
(***************************************************************************)
\* C17: a click request that supplies an ASIN and a product name is answered
\* with success and leaves exactly one click record, whatever else the
\* request holds and whatever the attribution and the rule lookup come to.
C17_ClickAlwaysRecorded ==
  (res # NoResponse /\ ~falsy(req.asin) /\ ~falsy(req.productName)) => Tracked

\* the category the resolution starts from
SuppliedCategory == IF falsy(req.category) THEN "Uncategorized" ELSE req.category

\* no step of the resolution finds a rule for the request: not the explicit
\* match nor the search index of the category, no term of the term table, no
\* keyword of an active rule
NoRuleMatches ==
  /\ findMatchedCategory(categories, SuppliedCategory) = 0
  /\ sniffTerm(activeCategories(categories), req.productName) = 0
  /\ \A i \in DOMAIN activeCategories(categories) :
       ~keywordHit(activeCategories(categories)[i], req.productName)

C25_ClickCreditsNobody ==
  res.op = "trackProductClick" =>
    /\ balance = [u \in UserIds |-> 0]
    /\ totalEarnings = [u \in UserIds |-> 0]

C25_witness ==
  /\ Tracked
  /\ clicks[1].agent = "a1"
  /\ clicks[1].price > 0
  /\ Len(transactions) = 1
  /\ transactions[1].status = "pending"
  /\ transactions[1].amount > 0
  /\ balance["a1"] = 0
  /\ totalEarnings["a1"] = 0

\* the rate a click takes from rule c
AdoptedRate(c) == IF c.percentage > 0 THEN Fraction(c.percentage) ELSE DefaultRate

\* C23: when the category of the request is present, is not a placeholder and
\* is the search-index value of a Category Rule, the click is resolved to a
\* rule with that search-index value: it takes the rule's name, and its
\* percentage when that is above 0.
C23_SearchIndexCategoryResolves ==
  (/\ Tracked
   /\ ~falsy(req.category)
   /\ req.category \notin {"Uncategorized", "Unknown"}
   /\ \E i \in DOMAIN categories : categories[i].amazonSearchIndex = req.category) =>
    \E i \in DOMAIN categories :
      /\ categories[i].amazonSearchIndex = req.category
      /\ clicks[1].category = categories[i].name
      /\ clicks[1].commissionRate = AdoptedRate(categories[i])

\* steps 1 to 3 find no rule for the request
Unresolved ==
  /\ findMatchedCategory(categories, SuppliedCategory) = 0
  /\ sniffTerm(activeCategories(categories), req.productName) = 0

\* the active rules of which a keyword occurs in the product name
KeywordRules ==
  { i \in DOMAIN activeCategories(categories) :
      keywordHit(activeCategories(categories)[i], req.productName) }

\* C24: when steps 1 to 3 leave the click unresolved, the first active rule
\* whose name or synonym of 3 characters or more occurs in the product name
\* as a whole word is adopted, whatever category the request supplied.
C24_KeywordSweepIsLastResort ==
  (Tracked /\ Unresolved /\ KeywordRules # {}) =>
    \E i \in KeywordRules :
      /\ \A j \in KeywordRules : i <= j
      /\ clicks[1].category = activeCategories(categories)[i].name
      /\ clicks[1].commissionRate = AdoptedRate(activeCategories(categories)[i])

(***************************************************************************)
(* Properties of resolveSearchIndex (SpecIndex)                            *)
(***************************************************************************)
\* the values of the static lookup table, and All
Vocabulary == Values(SMART_MAP) \cup {"All"}

\* C18: for every string, and for an empty or absent category,
\* resolveSearchIndex returns a non-empty string of the search-index
\* vocabulary, the values of the static table and All.
C18_ResolvesIntoVocabulary ==
  res # NoResponse => (res.value # "" /\ res.value \in Vocabulary)

\* C19: resolveSearchIndex applied to an index it returned gives that index.
C19_Idempotent ==
  (res # NoResponse /\ res.n = 2) => res.value = res.of

(***************************************************************************)
(* Further properties of the serial ledger (Spec)                          *)
(***************************************************************************)
\* C22: the commissionRate stored on every click is a fraction between 0
\* and 1, after any sequence of click requests and rate overrides.
C22_RateIsFraction ==
  \A i \in DOMAIN clicks :
    clicks[i].commissionRate >= 0 /\ clicks[i].commissionRate <= Fraction(100)

\* C26: at most one transaction refers to any click, after any sequence of
\* click requests, rate overrides and transaction approvals or rejections:
\* an override writes to the click's transaction when there is one.
C26_OneTransactionPerClick ==
  \A i \in DOMAIN clicks : Cardinality(LinkedTransactions(i)) <= 1

\* a rate override has rewritten the one transaction of an approved click
C26_witness ==
  /\ res = Response("updateClickCommission", 200)
  /\ Len(clicks) = 1
  /\ clicks[1].commissionRate = 250
  /\ LinkedTransactions(1) = {1}
  /\ transactions[1].status = "completed"
  /\ transactions[1].amount = clicks[1].price * 250

\* the amounts of the completed earnings transactions of user u among the
\* first n transactions, added up
RECURSIVE CompletedEarnings(_, _)
CompletedEarnings(u, n) ==
  IF n = 0 THEN 0
  ELSE CompletedEarnings(u, n - 1)
         + (IF /\ transactions[n].user = u
               /\ transactions[n].type = "earnings"
               /\ transactions[n].status = "completed"
            THEN transactions[n].amount
            ELSE 0)

\* C27: between requests, each user's totalEarnings is the sum of the
\* amounts of that user's completed earnings transactions.
C27_EarningsMatchLedger ==
  Quiet => \A u \in UserIds : totalEarnings[u] = CompletedEarnings(u, Len(transactions))

\* C28: every pending earnings transaction that refers to a click has an
\* amount above 0, the click's price times the click's commissionRate.
C28_PendingAmountIsPriceTimesRate ==
  \A t \in DOMAIN transactions :
    (/\ transactions[t].type = "earnings"
     /\ transactions[t].status = "pending"
     /\ transactions[t].referenceModel = "ProductClick") =>
      /\ transactions[t].referenceId \in DOMAIN clicks
      /\ transactions[t].amount > 0
      /\ transactions[t].amount =
           clicks[transactions[t].referenceId].price
             * clicks[transactions[t].referenceId].commissionRate

\* a rate override has rewritten the pending transaction of a click
C28_witness ==
  /\ res = Response("updateClickCommission", 200)
  /\ Len(clicks) = 1
  /\ clicks[1].commissionRate = 25000
  /\ LinkedTransactions(1) = {1}
  /\ transactions[1].status = "pending"
  /\ transactions[1].amount = clicks[1].price * 25000

SameInputs(a, b) ==
  /\ a.self = b.self
  /\ a.method = b.method
  /\ a.path = b.path
  /\ a.headers = b.headers
  /\ a.payload = b.payload
  /\ a.host = b.host

====
